---- MODULE Spec2Model ----
(***************************************************************************)
(* Team provisioning of pleesah-havnesjef: setupTeam (the Provisioning     *)
(* Engine) and the two TeamHandler front ends, run against a model of the  *)
(* cluster control plane.                                                  *)
(*                                                                         *)
(* Strings that are rendered, escaped or compared character by character   *)
(* (team names, tokens, error texts, rendered documents) are sequences of  *)
(* one-character strings; a multi-character element stands for a run of    *)
(* template or message text that holds no character html/template escapes. *)
(***************************************************************************)
EXTENDS Naturals, Sequences, FiniteSets

VARIABLES
    frontEnd,         \* which program serves POST /: "api" or "main"
    namespaces,       \* cluster: names of the Namespace objects
    serviceAccounts,  \* cluster: ServiceAccount objects
    tokens,           \* cluster: tokens issued by the TokenRequest API
    secrets,          \* cluster: Secret objects
    roleBindings,     \* cluster: RoleBinding objects
    pc,               \* per request: position in TeamHandler / setupTeam
    teamName,         \* per request: r.FormValue("team")
    token,            \* per request: token.Status.Token held by setupTeam
    k8sconfig,        \* per request: first result of setupTeam
    err,              \* per request: second result of setupTeam
    calls,            \* per request: the control-plane calls made, in order
    ctxDone,          \* per request: r.Context() has been cancelled
    page              \* per request: what TeamHandler wrote to the response

cluster == <<namespaces, serviceAccounts, tokens, secrets, roleBindings>>
vars == <<frontEnd, namespaces, serviceAccounts, tokens, secrets, roleBindings,
          pc, teamName, token, k8sconfig, err, calls, ctxDone, page>>

(***************************************************************************)
(* Bounds and inputs                                                       *)
(***************************************************************************)
MaxRequests == 2

Requests == 1..MaxRequests

\* Form values submitted as "team": two valid names, the empty name, and a
\* name holding a character that is neither a valid name character nor safe
\* in HTML.
TeamNames == { <<"v", "1">>, <<"a", "-", "b">>, <<>>, <<"a", "<">> }

\* What the cluster may hold before the first request: nothing, or a
\* namespace that this system did not create.
InitialNamespaces == { {}, {<<"a", "-", "b">>} }

FrontEnds == {"api", "main"}

NoFault == "none"

\* Failures of a control-plane call that do not depend on the object's name:
\* a rejection by the control plane and a failure in transit.
Faults == {"Forbidden", "Timeout"}

EmptyString == <<>>

Nil == [reason |-> "nil", resource |-> "", name |-> EmptyString]

\* Nothing written to the response yet.
NoPage == [template |-> "", data |-> [x \in {} |-> EmptyString]]

(***************************************************************************)
(* Text helpers                                                            *)
(***************************************************************************)
LowerAlnum == {"a", "b", "v", "0", "1", "2", "3", "4", "5", "6", "7", "8", "9"}

\* The replacement html/template applies to one character of a value in HTML
\* text context.
EscapeChar(c) ==
    CASE c = "<" -> <<"&", "l", "t", ";">>
      [] c = ">" -> <<"&", "g", "t", ";">>
      [] c = "&" -> <<"&", "a", "m", "p", ";">>
      [] c = "\"" -> <<"&", "#", "3", "4", ";">>
      [] c = "'" -> <<"&", "#", "3", "9", ";">>
      [] c = "+" -> <<"&", "#", "4", "3", ";">>
      [] OTHER -> <<c>>

RECURSIVE HTMLEscape(_)
HTMLEscape(s) ==
    IF s = <<>> THEN <<>> ELSE EscapeChar(Head(s)) \o HTMLEscape(Tail(s))

\* The control plane's rule for a Namespace name (an RFC 1123 label).
IsDNS1123Label(name) ==
    /\ Len(name) >= 1
    /\ Len(name) <= 63
    /\ \A i \in 1..Len(name) : name[i] \in LowerAlnum \cup {"-"}
    /\ name[1] \in LowerAlnum
    /\ name[Len(name)] \in LowerAlnum

Digits == <<"1", "2", "3", "4", "5", "6", "7", "8", "9">>

\* The n-th token the TokenRequest API issues: an opaque string over the
\* characters of a JWT.
TokenString(n) == <<"e", "y", "J", ".", Digits[n]>>

(***************************************************************************)
(* The objects setupTeam builds                                            *)
(***************************************************************************)
oneDay == 86400

\* Mutant of NamespaceObject: every team is given the same namespace.
NamespaceObjectShared(name) == [name |-> <<"v", "0">>]

\* Mutant of NamespaceObject: an empty or malformed name is replaced by a
\* default before the call.
NamespaceObjectDefaulted(name) ==
    [name |-> IF IsDNS1123Label(name) THEN name ELSE <<"v", "0">>]

NamespaceObject(name) == [name |-> name]

\* Mutant of ServiceAccountObject: the account gets a fixed name.
ServiceAccountObjectDefault(name) == [name |-> <<"d", "e", "f", "a", "u", "l", "t">>]

ServiceAccountObject(name) == [name |-> name]

\* Mutant of TokenRequestObject: the token is asked for one hour.
TokenRequestObjectOneHour(name) == [name |-> name, expirationSeconds |-> 3600]

TokenRequestObject(name) == [name |-> name, expirationSeconds |-> oneDay]

SecretObject ==
    [name |-> <<"koordinatene-mine">>,
     data |-> [KOORDINATER |-> <<"59.9124 N, 10.7962 E">>]]

\* Mutant of RoleBindingObject: the subject is the group of the service
\* accounts of every namespace.
RoleBindingObjectAllAccounts(name) ==
    [name |-> name,
     subjects |-> << [kind |-> "Group",
                      apiGroup |-> "rbac.authorization.k8s.io",
                      name |-> <<"system:serviceaccounts">>] >>,
     roleRef |-> [kind |-> "ClusterRole",
                  apiGroup |-> "rbac.authorization.k8s.io",
                  name |-> "pleesah-player"]]

RoleBindingObject(name) ==
    [name |-> name,
     subjects |-> << [kind |-> "Group",
                      apiGroup |-> "rbac.authorization.k8s.io",
                      name |-> <<"system:serviceaccounts:">> \o name] >>,
     roleRef |-> [kind |-> "ClusterRole",
                  apiGroup |-> "rbac.authorization.k8s.io",
                  name |-> "pleesah-player"]]

\* Mutant of RenderKubeconfig: the template's user line takes the token.
RenderKubeconfigUserToken(name, tok) ==
    << [key |-> "contexts.context.namespace", value |-> HTMLEscape(name)],
       [key |-> "contexts.context.user", value |-> HTMLEscape(tok)],
       [key |-> "users.name", value |-> HTMLEscape(name)],
       [key |-> "users.user.token", value |-> HTMLEscape(tok)] >>

\* Mutant of RenderKubeconfig: the token line takes the token the cluster
\* issued last.
RenderKubeconfigLatestToken(name, tok) ==
    << [key |-> "contexts.context.namespace", value |-> HTMLEscape(name)],
       [key |-> "contexts.context.user", value |-> HTMLEscape(name)],
       [key |-> "users.name", value |-> HTMLEscape(name)],
       [key |-> "users.user.token",
        value |-> HTMLEscape(TokenString(Cardinality(tokens)))] >>

\* kubeconfigTemplate executed by html/template over Name and Token: the
\* document as its lines that hold a template action, each value escaped.
RenderKubeconfig(name, tok) ==
    << [key |-> "contexts.context.namespace", value |-> HTMLEscape(name)],
       [key |-> "contexts.context.user", value |-> HTMLEscape(name)],
       [key |-> "users.name", value |-> HTMLEscape(name)],
       [key |-> "users.user.token", value |-> HTMLEscape(tok)] >>

\* The value a rendered document holds under a key; the empty string if the
\* document has no such line.
Field(doc, key) ==
    IF \E i \in 1..Len(doc) : doc[i].key = key
    THEN doc[CHOOSE i \in 1..Len(doc) : doc[i].key = key].value
    ELSE EmptyString

(***************************************************************************)
(* The cluster control plane: the answer to each create call               *)
(***************************************************************************)
NamespacesCreate(obj, fault) ==
    IF fault # NoFault THEN fault
    ELSE IF ~IsDNS1123Label(obj.name) THEN "Invalid"
    ELSE IF obj.name \in namespaces THEN "AlreadyExists"
    ELSE "Created"

ServiceAccountsCreate(ns, obj, fault) ==
    IF fault # NoFault THEN fault
    ELSE IF ns \notin namespaces THEN "NotFound"
    ELSE IF ~IsDNS1123Label(obj.name) THEN "Invalid"
    ELSE IF [namespace |-> ns, name |-> obj.name] \in serviceAccounts
         THEN "AlreadyExists"
    ELSE "Created"

ServiceAccountsCreateToken(ns, saName, req, fault) ==
    IF fault # NoFault THEN fault
    ELSE IF [namespace |-> ns, name |-> saName] \notin serviceAccounts
         THEN "NotFound"
    ELSE "Created"

SecretsCreate(ns, obj, fault) ==
    IF fault # NoFault THEN fault
    ELSE IF ns \notin namespaces THEN "NotFound"
    ELSE IF \E s \in secrets : s.namespace = ns /\ s.name = obj.name
         THEN "AlreadyExists"
    ELSE "Created"

RoleBindingsCreate(ns, obj, fault) ==
    IF fault # NoFault THEN fault
    ELSE IF ns \notin namespaces THEN "NotFound"
    ELSE IF \E b \in roleBindings : b.namespace = ns /\ b.name = obj.name
         THEN "AlreadyExists"
    ELSE "Created"

\* The error value the client returns for an answer other than Created.
StatusError(status, resource, name) ==
    [reason |-> status, resource |-> resource, name |-> name]

\* err.Error(): an answer of the control plane about an object quotes the
\* object's name; a rejection or a failure in transit does not.
ErrorText(e) ==
    IF e.reason \in Faults \cup {"Canceled"}
    THEN <<e.resource, ":", " ", e.reason>>
    ELSE <<e.resource, " ", "\"">> \o e.name \o <<"\"", " ", e.reason>>

(***************************************************************************)
(* setupTeam                                                               *)
(***************************************************************************)
\* Mutant of CallOutcome: the calls are made under a context of their own,
\* not the request's.
CallOutcomeBackground(r, fault) == fault

\* A call made under ctx, the request's context: with the context cancelled
\* the client gives up the call and returns the context's error; else the
\* call is answered, rejected or fails in transit.
CallOutcome(r, fault) == IF ctxDone[r] THEN "Canceled" ELSE fault

\* Mutant of StepAfter: the RoleBinding is created before the token is asked
\* for.
StepAfterBindingFirst(step) ==
    CASE step = "namespace" -> "serviceaccount"
      [] step = "serviceaccount" -> "rolebinding"
      [] step = "rolebinding" -> "token"
      [] step = "token" -> "secret"
      [] step = "secret" -> "render"

\* Mutant of StepAfter: the RoleBinding is left out.
StepAfterSkipBinding(step) ==
    CASE step = "namespace" -> "serviceaccount"
      [] step = "serviceaccount" -> "token"
      [] step = "token" -> "secret"
      [] step = "secret" -> "render"
      [] step = "rolebinding" -> "render"

\* The statement that follows a statement of setupTeam whose call returned
\* no error.
StepAfter(step) ==
    CASE step = "namespace" -> "serviceaccount"
      [] step = "serviceaccount" -> "token"
      [] step = "token" -> "secret"
      [] step = "secret" -> "rolebinding"
      [] step = "rolebinding" -> "render"

Call(resource, ns, name, existed, status) ==
    [resource |-> resource, namespace |-> ns, name |-> name,
     existed |-> existed, status |-> status]

\* err == nil: fall through to the next statement
Proceed(r) ==
    /\ pc' = [pc EXCEPT ![r] = StepAfter(pc[r])]
    /\ UNCHANGED <<k8sconfig, err>>

\* Mutant of Fail: the error check holds no return.
FailFallThrough(r, e) ==
    /\ UNCHANGED cluster
    /\ Proceed(r)

\* Mutant of Fail: an "already exists" answer is taken for success.
FailUnlessAlreadyExists(r, e) ==
    IF e.reason = "AlreadyExists"
    THEN /\ UNCHANGED cluster
         /\ Proceed(r)
    ELSE /\ UNCHANGED cluster
         /\ k8sconfig' = [k8sconfig EXCEPT ![r] = EmptyString]
         /\ err' = [err EXCEPT ![r] = e]
         /\ pc' = [pc EXCEPT ![r] = "returned"]

\* Mutant of Fail: the team's namespace and what it holds are deleted before
\* the error is returned.
FailWithRollback(r, e) ==
    /\ namespaces' = namespaces \ {teamName[r]}
    /\ serviceAccounts' = {x \in serviceAccounts : x.namespace # teamName[r]}
    /\ tokens' = {x \in tokens : x.namespace # teamName[r]}
    /\ secrets' = {x \in secrets : x.namespace # teamName[r]}
    /\ roleBindings' = {x \in roleBindings : x.namespace # teamName[r]}
    /\ k8sconfig' = [k8sconfig EXCEPT ![r] = EmptyString]
    /\ err' = [err EXCEPT ![r] = e]
    /\ pc' = [pc EXCEPT ![r] = "returned"]

\* Mutant of Fail: a failed call is made once more before the error is
\* returned.
FailRetryOnce(r, e) ==
    IF \A i \in 1..Len(calls[r]) : calls[r][i].resource # e.resource
    THEN /\ UNCHANGED cluster
         /\ UNCHANGED <<pc, k8sconfig, err>>
    ELSE /\ UNCHANGED cluster
         /\ k8sconfig' = [k8sconfig EXCEPT ![r] = EmptyString]
         /\ err' = [err EXCEPT ![r] = e]
         /\ pc' = [pc EXCEPT ![r] = "returned"]

\* Mutant of Fail: the Secret is taken for optional, its error is dropped.
FailUnlessSecret(r, e) ==
    IF e.resource = "secrets"
    THEN /\ UNCHANGED cluster
         /\ Proceed(r)
    ELSE /\ UNCHANGED cluster
         /\ k8sconfig' = [k8sconfig EXCEPT ![r] = EmptyString]
         /\ err' = [err EXCEPT ![r] = e]
         /\ pc' = [pc EXCEPT ![r] = "returned"]

\* Mutant of Fail: the error is returned together with what can be rendered
\* so far.
FailWithBundle(r, e) ==
    /\ UNCHANGED cluster
    /\ k8sconfig' = [k8sconfig EXCEPT ![r] = RenderKubeconfig(teamName[r], token[r])]
    /\ err' = [err EXCEPT ![r] = e]
    /\ pc' = [pc EXCEPT ![r] = "returned"]

\* if err != nil { return "", err }
Fail(r, e) ==
    /\ UNCHANGED cluster
    /\ k8sconfig' = [k8sconfig EXCEPT ![r] = EmptyString]
    /\ err' = [err EXCEPT ![r] = e]
    /\ pc' = [pc EXCEPT ![r] = "returned"]

\* TeamHandler reads the form value and calls setupTeam. Request r is the
\* r-th POST to arrive.
Post(r, t) ==
    /\ pc[r] = "idle"
    /\ \A q \in Requests : q < r => pc[q] # "idle"
    /\ teamName' = [teamName EXCEPT ![r] = t]
    /\ pc' = [pc EXCEPT ![r] = "namespace"]
    /\ UNCHANGED <<frontEnd, ctxDone, cluster, token, k8sconfig, err, calls, page>>

CreateNamespace(r, fault) ==
    /\ pc[r] = "namespace"
    /\ LET namespace == NamespaceObject(teamName[r])
           status == NamespacesCreate(namespace, CallOutcome(r, fault))
       IN /\ calls' = [calls EXCEPT ![r] = Append(@,
                 Call("namespaces", EmptyString, namespace.name,
                      namespace.name \in namespaces, status))]
          /\ IF status = "Created"
             THEN /\ namespaces' = namespaces \cup {namespace.name}
                  /\ UNCHANGED <<serviceAccounts, tokens, secrets, roleBindings>>
                  /\ Proceed(r)
             ELSE Fail(r, StatusError(status, "namespaces", namespace.name))
    /\ UNCHANGED <<frontEnd, ctxDone, teamName, token, page>>

CreateServiceAccount(r, fault) ==
    /\ pc[r] = "serviceaccount"
    /\ LET namespace == NamespaceObject(teamName[r])
           serviceAccount == ServiceAccountObject(teamName[r])
           object == [namespace |-> namespace.name, name |-> serviceAccount.name]
           status == ServiceAccountsCreate(namespace.name, serviceAccount, CallOutcome(r, fault))
       IN /\ calls' = [calls EXCEPT ![r] = Append(@,
                 Call("serviceaccounts", namespace.name, serviceAccount.name,
                      object \in serviceAccounts, status))]
          /\ IF status = "Created"
             THEN /\ serviceAccounts' = serviceAccounts \cup {object}
                  /\ UNCHANGED <<namespaces, tokens, secrets, roleBindings>>
                  /\ Proceed(r)
             ELSE Fail(r, StatusError(status, "serviceaccounts", serviceAccount.name))
    /\ UNCHANGED <<frontEnd, ctxDone, teamName, token, page>>

CreateToken(r, fault) ==
    /\ pc[r] = "token"
    /\ LET namespace == NamespaceObject(teamName[r])
           serviceAccount == ServiceAccountObject(teamName[r])
           tokenRequest == TokenRequestObject(teamName[r])
           status == ServiceAccountsCreateToken(namespace.name, serviceAccount.name,
                                                tokenRequest, CallOutcome(r, fault))
           issued == [namespace |-> namespace.name,
                      serviceAccount |-> serviceAccount.name,
                      requestName |-> tokenRequest.name,
                      expirationSeconds |-> tokenRequest.expirationSeconds,
                      token |-> TokenString(Cardinality(tokens) + 1)]
       IN /\ calls' = [calls EXCEPT ![r] = Append(@,
                 Call("serviceaccounts/token", namespace.name, serviceAccount.name,
                      FALSE, status))]
          /\ IF status = "Created"
             THEN /\ tokens' = tokens \cup {issued}
                  /\ token' = [token EXCEPT ![r] = issued.token]
                  /\ UNCHANGED <<namespaces, serviceAccounts, secrets, roleBindings>>
                  /\ Proceed(r)
             ELSE /\ UNCHANGED token
                  /\ Fail(r, StatusError(status, "serviceaccounts/token",
                                         serviceAccount.name))
    /\ UNCHANGED <<frontEnd, ctxDone, teamName, page>>

CreateSecret(r, fault) ==
    /\ pc[r] = "secret"
    /\ LET namespace == NamespaceObject(teamName[r])
           secret == SecretObject
           object == [namespace |-> namespace.name, name |-> secret.name,
                      data |-> secret.data]
           status == SecretsCreate(namespace.name, secret, CallOutcome(r, fault))
       IN /\ calls' = [calls EXCEPT ![r] = Append(@,
                 Call("secrets", namespace.name, secret.name,
                      \E s \in secrets :
                          s.namespace = namespace.name /\ s.name = secret.name,
                      status))]
          /\ IF status = "Created"
             THEN /\ secrets' = secrets \cup {object}
                  /\ UNCHANGED <<namespaces, serviceAccounts, tokens, roleBindings>>
                  /\ Proceed(r)
             ELSE Fail(r, StatusError(status, "secrets", secret.name))
    /\ UNCHANGED <<frontEnd, ctxDone, teamName, token, page>>

CreateRoleBinding(r, fault) ==
    /\ pc[r] = "rolebinding"
    /\ LET namespace == NamespaceObject(teamName[r])
           roleBinding == RoleBindingObject(teamName[r])
           object == [namespace |-> namespace.name, name |-> roleBinding.name,
                      subjects |-> roleBinding.subjects,
                      roleRef |-> roleBinding.roleRef]
           status == RoleBindingsCreate(namespace.name, roleBinding, CallOutcome(r, fault))
       IN /\ calls' = [calls EXCEPT ![r] = Append(@,
                 Call("rolebindings", namespace.name, roleBinding.name,
                      \E b \in roleBindings :
                          b.namespace = namespace.name /\ b.name = roleBinding.name,
                      status))]
          /\ IF status = "Created"
             THEN /\ roleBindings' = roleBindings \cup {object}
                  /\ UNCHANGED <<namespaces, serviceAccounts, tokens, secrets>>
                  /\ Proceed(r)
             ELSE Fail(r, StatusError(status, "rolebindings", roleBinding.name))
    /\ UNCHANGED <<frontEnd, ctxDone, teamName, token, page>>

\* tmpl.Execute(&sb, ...); return sb.String(), nil
Render(r) ==
    /\ pc[r] = "render"
    /\ k8sconfig' = [k8sconfig EXCEPT ![r] = RenderKubeconfig(teamName[r], token[r])]
    /\ err' = [err EXCEPT ![r] = Nil]
    /\ pc' = [pc EXCEPT ![r] = "returned"]
    /\ UNCHANGED <<frontEnd, ctxDone, cluster, teamName, token, calls, page>>

(***************************************************************************)
(* TeamHandler: the response to POST /                                     *)
(***************************************************************************)
\* A rendered document as html/template writes it into a page: every value
\* escaped once more.
EscapeDocument(doc) ==
    [i \in 1..Len(doc) |-> [key |-> doc[i].key, value |-> HTMLEscape(doc[i].value)]]

\* Mutant of ApiTeamHandlerPage: the error branch holds no return.
ApiTeamHandlerPageNoReturn(team, config, e) ==
    [template |-> "postTemplate",
     data |-> [Kubeconfig |-> EscapeDocument(config),
               Team |-> HTMLEscape(team)]]

\* internal/api: the error page on an error, the kubeconfig page otherwise.
ApiTeamHandlerPage(team, config, e) ==
    IF e # Nil
    THEN [template |-> "errorTemplate",
          data |-> [Error |-> HTMLEscape(ErrorText(e))]]
    ELSE [template |-> "postTemplate",
          data |-> [Kubeconfig |-> EscapeDocument(config),
                    Team |-> HTMLEscape(team)]]

\* The single-file program: the error is logged and the kubeconfig page is
\* rendered whatever setupTeam returned.
MainTeamHandlerPage(team, config, e) ==
    [template |-> "postTemplate",
     data |-> [Kubeconfig |-> EscapeDocument(config),
               Team |-> HTMLEscape(team)]]

TeamHandler(r) ==
    /\ pc[r] = "returned"
    /\ page' = [page EXCEPT ![r] =
           IF frontEnd = "api"
           THEN ApiTeamHandlerPage(teamName[r], k8sconfig[r], err[r])
           ELSE MainTeamHandlerPage(teamName[r], k8sconfig[r], err[r])]
    /\ pc' = [pc EXCEPT ![r] = "done"]
    /\ UNCHANGED <<frontEnd, ctxDone, cluster, teamName, token, k8sconfig, err, calls>>

(***************************************************************************)
(* Specifications                                                          *)
(***************************************************************************)
Init ==
    /\ frontEnd \in FrontEnds
    /\ namespaces \in InitialNamespaces
    /\ serviceAccounts = {}
    /\ tokens = {}
    /\ secrets = {}
    /\ roleBindings = {}
    /\ pc = [r \in Requests |-> "idle"]
    /\ teamName = [r \in Requests |-> EmptyString]
    /\ token = [r \in Requests |-> EmptyString]
    /\ k8sconfig = [r \in Requests |-> EmptyString]
    /\ err = [r \in Requests |-> Nil]
    /\ calls = [r \in Requests |-> <<>>]
    /\ ctxDone = [r \in Requests |-> FALSE]
    /\ page = [r \in Requests |-> NoPage]

\* Every control-plane call may be answered, rejected or fail in transit.
Next ==
    \E r \in Requests :
        \/ \E t \in TeamNames : Post(r, t)
        \/ \E f \in {NoFault} \cup Faults : CreateNamespace(r, f)
        \/ \E f \in {NoFault} \cup Faults : CreateServiceAccount(r, f)
        \/ \E f \in {NoFault} \cup Faults : CreateToken(r, f)
        \/ \E f \in {NoFault} \cup Faults : CreateSecret(r, f)
        \/ \E f \in {NoFault} \cup Faults : CreateRoleBinding(r, f)
        \/ Render(r)
        \/ TeamHandler(r)

Spec == Init /\ [][Next]_vars

\* The control plane answers every call: a call fails only by the rules the
\* control plane applies to the object (its name, what exists already).
NextReliable ==
    \E r \in Requests :
        \/ \E t \in TeamNames : Post(r, t)
        \/ CreateNamespace(r, NoFault)
        \/ CreateServiceAccount(r, NoFault)
        \/ CreateToken(r, NoFault)
        \/ CreateSecret(r, NoFault)
        \/ CreateRoleBinding(r, NoFault)
        \/ Render(r)
        \/ TeamHandler(r)

SpecReliable == Init /\ [][NextReliable]_vars

\* The request's context is cancelled (the client went away, a deadline
\* passed) while TeamHandler is inside setupTeam.
Cancel(r) ==
    /\ pc[r] \in {"namespace", "serviceaccount", "token", "secret", "rolebinding",
                  "render"}
    /\ ~ctxDone[r]
    /\ ctxDone' = [ctxDone EXCEPT ![r] = TRUE]
    /\ UNCHANGED <<frontEnd, cluster, pc, teamName, token, k8sconfig, err, calls,
                   page>>

\* The control plane answers every call that reaches it, and the context
\* of any request in progress may be cancelled.
NextCancel ==
    \/ NextReliable
    \/ \E r \in Requests : Cancel(r)

SpecCancel == Init /\ [][NextCancel]_vars

(***************************************************************************)
(* Properties                                                              *)
(***************************************************************************)
\* setupTeam has returned to TeamHandler.
Returned(r) == pc[r] \in {"returned", "done"}

Succeeded(r) == Returned(r) /\ err[r] = Nil

Failed(r) == Returned(r) /\ err[r] # Nil

\* The invocation's i-th control-plane call was made and created its object.
Created(r, i) == Len(calls[r]) >= i /\ calls[r][i].status = "Created"

TokensOf(name) == {x \in tokens : x.namespace = name}

\* C1: with the control plane answering every call, an invocation for a valid
\* team name T that finds no namespace T when it asks for one succeeds, and
\* the bundle it returns has context namespace T and context user T and
\* carries the token this invocation was issued for ServiceAccount T.
C1_ProvisionSucceeds ==
    \A r \in Requests :
        ( /\ Returned(r)
          /\ IsDNS1123Label(teamName[r])
          /\ ~calls[r][1].existed )
        => /\ err[r] = Nil
           /\ Field(k8sconfig[r], "contexts.context.namespace") = teamName[r]
           /\ Field(k8sconfig[r], "contexts.context.user") = teamName[r]
           /\ Field(k8sconfig[r], "users.user.token") = token[r]
           /\ Created(r, 3)
           /\ \E x \in tokens : /\ x.token = token[r]
                                /\ x.namespace = teamName[r]
                                /\ x.serviceAccount = teamName[r]

C1_Witness ==
    \E r \in Requests :
        /\ pc[r] = "done"
        /\ teamName[r] = <<"a", "-", "b">>
        /\ err[r] = Nil
        /\ Field(k8sconfig[r], "contexts.context.user") = <<"a", "-", "b">>

\* C2: an invocation whose namespace exists already when it asks for it
\* fails at that call with an AlreadyExists error on the namespace, makes no
\* other call, holds no token, and no step it takes changes the cluster.
C2_DuplicateCreatesNothing ==
    [][ \A r \in Requests :
          ( /\ pc'[r] # pc[r]
            /\ Len(calls'[r]) >= 1
            /\ calls'[r][1].existed )
          => /\ cluster' = cluster
             /\ Len(calls'[r]) = 1
             /\ calls'[r][1].status = "AlreadyExists"
             /\ pc'[r] \in {"returned", "done"}
             /\ err'[r] = StatusError("AlreadyExists", "namespaces", teamName[r])
             /\ k8sconfig'[r] = EmptyString
             /\ token'[r] = EmptyString ]_vars

C2_Witness ==
    \E r \in Requests :
        /\ pc[r] = "done"
        /\ calls[r][1].existed
        /\ teamName[r] \in namespaces
        /\ serviceAccounts = {}

\* C3: once an invocation for T has returned a bundle, an invocation for T
\* that asks for its namespace afterwards fails at that call with the
\* AlreadyExists error on namespace T and no token is issued; no two
\* invocations for one team name ever both return a bundle.
C3_NeverSucceedsTwice ==
    [][ /\ \A r \in Requests :
             ( /\ pc[r] = "namespace"
               /\ pc'[r] # pc[r]
               /\ \E q \in Requests \ {r} :
                      Succeeded(q) /\ teamName[q] = teamName[r] )
             => /\ pc'[r] = "returned"
                /\ err'[r] = StatusError("AlreadyExists", "namespaces", teamName[r])
                /\ k8sconfig'[r] = EmptyString
                /\ tokens' = tokens
        /\ \A q, r \in Requests :
             ( /\ Succeeded(q)'
               /\ Succeeded(r)'
               /\ teamName'[q] = teamName'[r] )
             => q = r ]_vars

C3_Witness ==
    \E q, r \in Requests :
        /\ q # r
        /\ teamName[q] = teamName[r]
        /\ pc[q] = "done" /\ err[q] = Nil
        /\ pc[r] = "done" /\ err[r].reason = "AlreadyExists"
        /\ Cardinality(TokensOf(teamName[r])) = 1

\* C4: under every interleaving of invocations for one team name, with the
\* control plane answering every call, at most one of them returns a bundle
\* and at most one token is issued for the name; when one of them has created
\* the namespace, every other one that has returned failed with an
\* AlreadyExists error at the call whose object existed.
C4_ConcurrentSameName ==
    \A q \in Requests :
        /\ Cardinality(TokensOf(teamName[q])) <= 1
        /\ \A r \in Requests \ {q} :
             teamName[r] = teamName[q]
             => /\ ~(Succeeded(q) /\ Succeeded(r))
                /\ (Created(q, 1) /\ Returned(r))
                   => /\ err[r].reason = "AlreadyExists"
                      /\ calls[r][Len(calls[r])].existed
                      /\ calls[r][Len(calls[r])].status = "AlreadyExists"
                      /\ k8sconfig[r] = EmptyString

\* Two invocations for one name were in setupTeam at once; one created the
\* namespace and the other has lost.
C4_Witness ==
    \E q, r \in Requests :
        /\ q # r
        /\ teamName[q] = teamName[r]
        /\ pc[q] = "serviceaccount"
        /\ Failed(r)
        /\ Len(calls[r]) = 1

\* The resources of the control-plane calls of one invocation, in the order
\* of the algorithm.
CallOrder ==
    <<"namespaces", "serviceaccounts", "serviceaccounts/token", "secrets",
      "rolebindings">>

\* C5: the calls of one invocation are made in the order Namespace,
\* ServiceAccount, token, Secret, RoleBinding; a call is made only when every
\* earlier call of the invocation has created its object; and the bundle is
\* rendered only after all five have.
C5_StrictOrder ==
    \A r \in Requests :
        /\ Len(calls[r]) <= Len(CallOrder)
        /\ \A i \in 1..Len(calls[r]) :
             /\ calls[r][i].resource = CallOrder[i]
             /\ i < Len(calls[r]) => calls[r][i].status = "Created"
        /\ (pc[r] = "render" \/ Succeeded(r) \/ k8sconfig[r] # EmptyString)
           => \A i \in 1..Len(CallOrder) : Created(r, i)

C5_Witness ==
    \E r \in Requests :
        /\ pc[r] = "done"
        /\ k8sconfig[r] # EmptyString
        /\ Len(calls[r]) = 5
        /\ calls[r][4].resource = "secrets"

\* The object a call of the log created is in the cluster.
Present(c) ==
    CASE c.resource = "namespaces" -> c.name \in namespaces
      [] c.resource = "serviceaccounts" ->
             [namespace |-> c.namespace, name |-> c.name] \in serviceAccounts
      [] c.resource = "serviceaccounts/token" ->
             \E x \in tokens : x.namespace = c.namespace /\ x.serviceAccount = c.name
      [] c.resource = "secrets" ->
             \E x \in secrets : x.namespace = c.namespace /\ x.name = c.name
      [] c.resource = "rolebindings" ->
             \E x \in roleBindings : x.namespace = c.namespace /\ x.name = c.name

\* C6: no rollback: every object an invocation has created is in the cluster
\* from then on, in particular when the invocation returns an error from a
\* later step; nothing the system created is ever removed.
C6_NoRollback ==
    \A r \in Requests :
        \A i \in 1..Len(calls[r]) :
            calls[r][i].status = "Created" => Present(calls[r][i])

\* An invocation failed at the Secret and has returned; its namespace,
\* ServiceAccount and token are in the cluster.
C6_Witness ==
    \E r \in Requests :
        /\ pc[r] = "done"
        /\ err[r] # Nil
        /\ Len(calls[r]) = 4
        /\ teamName[r] \in namespaces
        /\ [namespace |-> teamName[r], name |-> teamName[r]] \in serviceAccounts
        /\ TokensOf(teamName[r]) # {}

\* C7: a call that fails is the invocation's last call, its error is the
\* error setupTeam returns, with the empty string; no call is made twice by
\* one invocation; a failed token request leaves the ServiceAccount in place.
C7_FailFast ==
    \A r \in Requests :
        /\ \A i \in 1..Len(calls[r]) :
             calls[r][i].status # "Created"
             => /\ i = Len(calls[r])
                /\ Returned(r)
                /\ err[r] = StatusError(calls[r][i].status, calls[r][i].resource,
                                        calls[r][i].name)
                /\ k8sconfig[r] = EmptyString
        /\ \A i, j \in 1..Len(calls[r]) :
             calls[r][i].resource = calls[r][j].resource => i = j
        /\ (Len(calls[r]) = 3 /\ calls[r][3].status # "Created")
           => [namespace |-> teamName[r], name |-> teamName[r]] \in serviceAccounts

C7_Witness ==
    \E r \in Requests :
        /\ pc[r] = "done"
        /\ Len(calls[r]) = 3
        /\ calls[r][3].status = "Timeout"
        /\ err[r].reason = "Timeout"
        /\ [namespace |-> teamName[r], name |-> teamName[r]] \in serviceAccounts

\* What a response page shows.
NamesTeam(p, team) ==
    "Team" \in DOMAIN p.data /\ p.data.Team = HTMLEscape(team)

ContainsErrorText(p, e) ==
    "Error" \in DOMAIN p.data /\ p.data.Error = HTMLEscape(ErrorText(e))

ShowsCredential(p) ==
    "Kubeconfig" \in DOMAIN p.data /\ Len(p.data.Kubeconfig) > 0

ServiceAccountsGroup(name) == <<"system:serviceaccounts:">> \o name

\* C9: the RoleBinding an invocation for T created is the only RoleBinding
\* in namespace T, is named T, has exactly one subject, the group
\* system:serviceaccounts:T, and refers to the ClusterRole pleesah-player.
C9_RoleBindingShape ==
    \A r \in Requests :
        Created(r, 5)
        => /\ \E b \in roleBindings : b.namespace = teamName[r]
           /\ \A b \in roleBindings :
                b.namespace = teamName[r]
                => /\ b.name = teamName[r]
                   /\ Len(b.subjects) = 1
                   /\ b.subjects[1].kind = "Group"
                   /\ b.subjects[1].apiGroup = "rbac.authorization.k8s.io"
                   /\ b.subjects[1].name = ServiceAccountsGroup(teamName[r])
                   /\ b.roleRef.kind = "ClusterRole"
                   /\ b.roleRef.apiGroup = "rbac.authorization.k8s.io"
                   /\ b.roleRef.name = "pleesah-player"

C9_Witness ==
    \E b \in roleBindings :
        /\ b.namespace = <<"v", "1">>
        /\ b.subjects[1].name = <<"system:serviceaccounts:", "v", "1">>

\* C10: every ServiceAccount and RoleBinding in the cluster is named as the
\* namespace that holds it, that namespace exists, and the name is the team
\* name of the invocation that created it; every call of an invocation for T
\* that creates a Namespace, a ServiceAccount or a RoleBinding names it T,
\* the last two in namespace T; every token is issued for the ServiceAccount
\* T in namespace T on a request named T.
C10_OneName ==
    /\ \A x \in serviceAccounts \cup roleBindings :
         /\ x.name = x.namespace
         /\ x.namespace \in namespaces
         /\ \E r \in Requests : teamName[r] = x.name /\ Created(r, 1)
    /\ \A x \in tokens :
         /\ x.serviceAccount = x.namespace
         /\ x.requestName = x.namespace
         /\ [namespace |-> x.namespace, name |-> x.serviceAccount] \in serviceAccounts
         /\ \E r \in Requests : teamName[r] = x.namespace /\ token[r] = x.token
    /\ \A r \in Requests :
         \A i \in 1..Len(calls[r]) :
             /\ calls[r][i].resource # "secrets" => calls[r][i].name = teamName[r]
             /\ calls[r][i].resource # "namespaces"
                => calls[r][i].namespace = teamName[r]

C10_Witness ==
    \E r \in Requests :
        /\ Succeeded(r)
        /\ teamName[r] \in namespaces
        /\ [namespace |-> teamName[r], name |-> teamName[r]] \in serviceAccounts
        /\ \E b \in roleBindings : b.name = teamName[r] /\ b.namespace = teamName[r]
        /\ \E x \in tokens : x.serviceAccount = teamName[r]

\* C11: every token the system was issued was asked for with an expiration
\* of exactly 86400 seconds, whatever the team name, and every invocation
\* that got past the token request holds such a token.
C11_TokenExpiration ==
    /\ \A x \in tokens : x.expirationSeconds = 86400
    /\ \A r \in Requests :
         Created(r, 3)
         => \E x \in tokens : /\ x.token = token[r]
                              /\ x.namespace = teamName[r]
                              /\ x.expirationSeconds = 24 * 60 * 60

C11_Witness ==
    /\ \E x \in tokens : x.namespace = <<"v", "1">> /\ x.expirationSeconds = 86400
    /\ \E x \in tokens : x.namespace = <<"a", "-", "b">> /\ x.expirationSeconds = 86400

\* C12: with the control plane answering every call, an invocation for an
\* empty or otherwise invalid name is handed to setupTeam unchecked, makes
\* the namespace call with the name as submitted, gets the control plane's
\* Invalid answer, returns that error and changes nothing in the cluster.
C12_InvalidName ==
    [][ \A r \in Requests :
          ( /\ pc'[r] # pc[r]
            /\ ~IsDNS1123Label(teamName'[r]) )
          => /\ cluster' = cluster
             /\ pc[r] = "idle" => pc'[r] = "namespace" /\ calls'[r] = <<>>
             /\ pc[r] # "idle"
                => /\ Len(calls'[r]) = 1
                   /\ calls'[r][1].resource = "namespaces"
                   /\ calls'[r][1].name = teamName[r]
                   /\ calls'[r][1].status = "Invalid"
                   /\ pc'[r] \in {"returned", "done"}
                   /\ err'[r] = StatusError("Invalid", "namespaces", teamName[r])
                   /\ k8sconfig'[r] = EmptyString ]_vars

C12_Witness ==
    \E q, r \in Requests :
        /\ pc[q] = "done" /\ teamName[q] = EmptyString
        /\ err[q].reason = "Invalid"
        /\ pc[r] = "done" /\ teamName[r] = <<"a", "<">>
        /\ err[r].reason = "Invalid"
        /\ namespaces = {} /\ serviceAccounts = {}

\* C13: once the context of an invocation is cancelled while a control-plane
\* call of it is still outstanding, that call is given up with the context's
\* error and changes nothing, setupTeam returns that error with the empty
\* string and starts no later step, and every object the invocation had
\* created is still in the cluster when it has returned.
C13_Cancellation ==
    [][ \A r \in Requests :
          /\ ( /\ ctxDone[r]
               /\ pc[r] \in {"namespace", "serviceaccount", "token", "secret",
                             "rolebinding"}
               /\ pc'[r] # pc[r] )
             => /\ pc'[r] = "returned"
                /\ cluster' = cluster
                /\ calls'[r][Len(calls'[r])].status = "Canceled"
                /\ Len(calls'[r]) = Len(calls[r]) + 1
                /\ err'[r].reason = "Canceled"
                /\ k8sconfig'[r] = EmptyString
          /\ (Returned(r)' /\ err'[r].reason = "Canceled")
             => /\ k8sconfig'[r] = EmptyString
                /\ ~ShowsCredential(page'[r])
                /\ \A i \in 1..(Len(calls'[r]) - 1) :
                     /\ calls[r][i] = calls'[r][i]
                     /\ calls[r][i].status = "Created"
                     /\ Present(calls[r][i])' ]_vars

\* The context was cancelled after the ServiceAccount was created; the token
\* request was given up, and the namespace and the ServiceAccount remain.
C13_Witness ==
    \E r \in Requests :
        /\ ctxDone[r]
        /\ pc[r] = "done"
        /\ err[r].reason = "Canceled"
        /\ Len(calls[r]) = 3
        /\ teamName[r] \in namespaces
        /\ [namespace |-> teamName[r], name |-> teamName[r]] \in serviceAccounts
        /\ TokensOf(teamName[r]) = {}

\* The answer an invocation for team name T gets to the call it makes at a
\* step when the call is answered: it depends on T and on namespace T alone.
ExpectedAnswer(step, name) ==
    IF step # "namespace" THEN "Created"
    ELSE IF ~IsDNS1123Label(name) THEN "Invalid"
    ELSE IF name \in namespaces THEN "AlreadyExists"
    ELSE "Created"

\* C14: a step of an invocation for T changes no namespace other than T, no
\* object in another namespace and nothing another invocation holds; and
\* the answer to each of its calls is a failure of the call itself or the
\* answer that T and namespace T alone determine, whatever invocations for
\* other names have done in between.
C14_DistinctNamesIndependent ==
    [][ \A r \in Requests :
          pc'[r] # pc[r]
          => LET name == teamName'[r] IN
             /\ namespaces' \ {name} = namespaces \ {name}
             /\ {x \in serviceAccounts' : x.namespace # name}
                    = {x \in serviceAccounts : x.namespace # name}
             /\ {x \in tokens' : x.namespace # name}
                    = {x \in tokens : x.namespace # name}
             /\ {x \in secrets' : x.namespace # name}
                    = {x \in secrets : x.namespace # name}
             /\ {x \in roleBindings' : x.namespace # name}
                    = {x \in roleBindings : x.namespace # name}
             /\ \A q \in Requests \ {r} :
                  /\ pc'[q] = pc[q] /\ teamName'[q] = teamName[q]
                  /\ token'[q] = token[q] /\ k8sconfig'[q] = k8sconfig[q]
                  /\ err'[q] = err[q] /\ calls'[q] = calls[q]
                  /\ page'[q] = page[q]
             /\ pc[r] \in {"namespace", "serviceaccount", "token", "secret",
                           "rolebinding"}
                => \/ calls'[r][Len(calls'[r])].status \in Faults
                   \/ calls'[r][Len(calls'[r])].status = ExpectedAnswer(pc[r], name) ]_vars

\* Two invocations for different names were inside setupTeam at once and
\* both have returned a bundle.
C14_Witness ==
    \E q, r \in Requests :
        /\ teamName[q] = <<"v", "1">>
        /\ teamName[r] = <<"a", "-", "b">>
        /\ Succeeded(q) /\ Succeeded(r)
        /\ Len(calls[q]) = 5 /\ Len(calls[r]) = 5
        /\ token[q] = TokenString(2)
        /\ token[r] = TokenString(1)

\* C15: an invocation whose Secret call fails makes no further call and
\* returns that error with the empty string: the token it was issued is in
\* no bundle and on no page, and namespace T holds no RoleBinding.
C15_SecretFailureAborts ==
    \A r \in Requests :
        (Len(calls[r]) >= 4 /\ calls[r][4].status # "Created")
        => /\ Len(calls[r]) = 4
           /\ Returned(r)
           /\ err[r] = StatusError(calls[r][4].status, "secrets", SecretObject.name)
           /\ k8sconfig[r] = EmptyString
           /\ \E x \in tokens : x.token = token[r] /\ x.namespace = teamName[r]
           /\ \A q \in Requests :
                /\ Field(k8sconfig[q], "users.user.token") # token[r]
                /\ ~(pc[q] = "done" /\ teamName[q] = teamName[r]
                                    /\ ShowsCredential(page[q]))
           /\ \A b \in roleBindings : b.namespace # teamName[r]

C15_Witness ==
    \E r \in Requests :
        /\ pc[r] = "done"
        /\ Len(calls[r]) = 4
        /\ calls[r][4].status = "Forbidden"
        /\ token[r] = TokenString(1)
        /\ teamName[r] \in namespaces

\* C16: an invocation that holds or has returned a bundle has created the
\* Namespace, the ServiceAccount, the Secret and the RoleBinding of its team,
\* all of them are in the cluster, and the bundle's token is the token issued
\* to ServiceAccount T on its own request, held by no other invocation; a
\* credential is shown only on the page of such an invocation; the token of
\* an invocation that failed is in no bundle and on no page.
C16_BundleImpliesAllCreated ==
    \A r \in Requests :
        /\ (k8sconfig[r] # EmptyString \/ Succeeded(r) \/ ShowsCredential(page[r]))
           => /\ \A i \in 1..5 : Created(r, i) /\ Present(calls[r][i])
              /\ err[r] = Nil
              /\ Field(k8sconfig[r], "users.user.token") = token[r]
              /\ \E x \in tokens : /\ x.token = token[r]
                                   /\ x.namespace = teamName[r]
                                   /\ x.serviceAccount = teamName[r]
              /\ \A q \in Requests \ {r} : token[q] # token[r]
        /\ ShowsCredential(page[r])
           => Field(page[r].data.Kubeconfig, "users.user.token") = HTMLEscape(token[r])
        /\ (Failed(r) /\ token[r] # EmptyString)
           => \A q \in Requests :
                /\ Field(k8sconfig[q], "users.user.token") # token[r]
                /\ ShowsCredential(page[q])
                   => Field(page[q].data.Kubeconfig, "users.user.token")
                          # HTMLEscape(token[r])

\* One invocation was issued a token and failed at the RoleBinding; another
\* one has returned a bundle and its page shows it.
C16_Witness ==
    \E q, r \in Requests :
        /\ pc[q] = "done" /\ err[q] # Nil /\ Len(calls[q]) = 5
        /\ token[q] # EmptyString
        /\ pc[r] = "done" /\ err[r] = Nil
        /\ ShowsCredential(page[r])

\* C17: a namespace that exists exists from then on, and an invocation for T
\* that asks for namespace T while it exists, also when it is left from an
\* invocation that failed at a later step, gets an error at that call, makes
\* no other call and changes nothing; no invocation for T ever holds a
\* bundle when another invocation for T created the namespace.
C17_NoSecondChance ==
    [][ /\ namespaces \subseteq namespaces'
        /\ \A r \in Requests :
             ( /\ pc[r] = "namespace"
               /\ pc'[r] # pc[r]
               /\ teamName[r] \in namespaces )
             => /\ pc'[r] = "returned"
                /\ err'[r] # Nil
                /\ k8sconfig'[r] = EmptyString
                /\ Len(calls'[r]) = 1
                /\ cluster' = cluster
        /\ \A q, r \in Requests :
             (q # r /\ teamName'[q] = teamName'[r] /\ Created(q, 1)')
             => /\ k8sconfig'[r] = EmptyString
                /\ ~Succeeded(r)' ]_vars

\* An invocation created namespace T and failed at the token request; a
\* later invocation for T has failed at the namespace call.
C17_Witness ==
    \E q, r \in Requests :
        /\ q < r
        /\ teamName[q] = teamName[r]
        /\ pc[q] = "done" /\ err[q] # Nil /\ Len(calls[q]) = 3
        /\ pc[r] = "done" /\ err[r].reason = "AlreadyExists" /\ Len(calls[r]) = 1

\* C18: setupTeam returns either no error and the rendered, non-empty bundle
\* of its team name and token, or an error and the empty string.
C18_TwoOutcomes ==
    \A r \in Requests :
        Returned(r)
        => \/ /\ err[r] = Nil
              /\ k8sconfig[r] # EmptyString
              /\ Field(k8sconfig[r], "users.user.token") = token[r]
              /\ Field(k8sconfig[r], "contexts.context.namespace") = teamName[r]
           \/ /\ err[r] # Nil
              /\ err[r].reason \in {"Invalid", "AlreadyExists", "NotFound"} \cup Faults
              /\ k8sconfig[r] = EmptyString

\* Both outcomes, the failure after a token was issued.
C18_Witness ==
    \E q, r \in Requests :
        /\ Returned(q) /\ err[q] = Nil /\ Len(k8sconfig[q]) = 4
        /\ Returned(r) /\ err[r].reason = "Timeout" /\ Len(calls[r]) = 5
        /\ token[r] # EmptyString /\ k8sconfig[r] = EmptyString

\* The document the template yields for a valid name and a token, neither
\* of which holds a character that is escaped.
ExpectedKubeconfig(name, tok) ==
    << [key |-> "contexts.context.namespace", value |-> name],
       [key |-> "contexts.context.user", value |-> name],
       [key |-> "users.name", value |-> name],
       [key |-> "users.user.token", value |-> tok] >>

\* C19: the rendering step makes no control-plane call and changes nothing
\* in the cluster or in another invocation, and the bundle it returns is the
\* same function of the team name and the token the invocation holds in
\* every cluster state.
C19_RenderPure ==
    [][ \A r \in Requests :
          (pc[r] = "render" /\ pc'[r] # pc[r])
          => /\ cluster' = cluster
             /\ calls' = calls
             /\ teamName' = teamName /\ token' = token /\ page' = page
             /\ \A q \in Requests \ {r} :
                  pc'[q] = pc[q] /\ k8sconfig'[q] = k8sconfig[q] /\ err'[q] = err[q]
             /\ pc'[r] = "returned"
             /\ err'[r] = Nil
             /\ k8sconfig'[r] = ExpectedKubeconfig(teamName[r], token[r]) ]_vars

\* A bundle was rendered while the cluster held objects of another team.
C19_Witness ==
    \E q, r \in Requests :
        /\ pc[r] = "returned" /\ err[r] = Nil
        /\ k8sconfig[r] = ExpectedKubeconfig(<<"v", "1">>, TokenString(1))
        /\ teamName[q] = <<"a", "-", "b">>
        /\ TokensOf(teamName[q]) # {}

====
